---------------------------- MODULE Spec2Model ----------------------------
(***************************************************************************)
(* A model of picol (src/picol.c): the tokenizer, the escape decoder, the  *)
(* environment of call frames, the command registry, the evaluator and the *)
(* built-in commands, as a state machine whose state is the interpreter    *)
(* (struct picolInterp) together with the C call stack of picolEval and of *)
(* the command handlers that call it back.                                 *)
(*                                                                         *)
(* C strings are sequences of byte values (0..255); positions in a string  *)
(* are 0-based offsets from its first byte, as the C pointers are.         *)
(***************************************************************************)
EXTENDS Integers, Sequences, FiniteSets, TLC

(***************************************************************************)
(* Bytes and <ctype.h> in the "C" locale.                                  *)
(***************************************************************************)
\* The printable ASCII characters 32..95 and 97..126 (no string of the model
\* holds the grave accent, 96).
AsciiLow == " !\"#$%&'()*+,-./0123456789:;<=>?@ABCDEFGHIJKLMNOPQRSTUVWXYZ[\\]^_"
AsciiHigh == "abcdefghijklmnopqrstuvwxyz{|}~"

OrdTable ==
  [c \in {SubSeq(AsciiLow, k, k) : k \in 1..Len(AsciiLow)}
         \cup {SubSeq(AsciiHigh, k, k) : k \in 1..Len(AsciiHigh)}
         \cup {"\n", "\t", "\r"} |->
     IF c = "\n" THEN 10
     ELSE IF c = "\t" THEN 9
     ELSE IF c = "\r" THEN 13
     ELSE IF \E k \in 1..Len(AsciiLow) : SubSeq(AsciiLow, k, k) = c
     THEN 31 + (CHOOSE k \in 1..Len(AsciiLow) : SubSeq(AsciiLow, k, k) = c)
     ELSE 96 + (CHOOSE k \in 1..Len(AsciiHigh) : SubSeq(AsciiHigh, k, k) = c)]

\* The byte value of a one-character string.
Ord(c) == OrdTable[c]

\* The bytes of a string literal.
Bytes(s) == [k \in 1..Len(s) |-> Ord(SubSeq(s, k, k))]

NUL == Ord("\t") - Ord("\t")
NL == Ord("\n")
SPACE == Ord(" ")
SEMI == Ord(";")
DQUOTE == Ord("\"")
HASH == Ord("#")
DOLLAR == Ord("$")
LBRACKET == Ord("[")
RBRACKET == Ord("]")
LBRACE == Ord("{")
RBRACE == Ord("}")
BACKSLASH == Ord("\\")
UNDERSCORE == Ord("_")
MINUS == Ord("-")
PLUS == Ord("+")
ZERO == Ord("0")

isgraph(c) == c > SPACE /\ c < Ord("~") + 1
isdigit(c) == c >= ZERO /\ c <= Ord("9")
isupper(c) == c >= Ord("A") /\ c <= Ord("Z")
islower(c) == c >= Ord("a") /\ c <= Ord("z")
isalpha(c) == isupper(c) \/ islower(c)
isalnum(c) == isalpha(c) \/ isdigit(c)
isxdigit(c) == isdigit(c) \/ (c >= Ord("A") /\ c <= Ord("F")) \/ (c >= Ord("a") /\ c <= Ord("f"))
isspace(c) == c = SPACE \/ (c >= Ord("\t") /\ c <= Ord("\r"))
toupper(c) == IF islower(c) THEN c - (Ord("a") - Ord("A")) ELSE c

\* *(s+k) for a NUL-terminated string s: the byte at offset k, the NUL at its end.
At(s, k) == IF k >= 0 /\ k < Len(s) THEN s[k + 1] ELSE NUL

(***************************************************************************)
(* Return codes and token types (the two enums of picol.c).                *)
(***************************************************************************)
PICOL_OK == "OK"
PICOL_ERR == "ERR"
PICOL_RETURN == "RETURN"
PICOL_BREAK == "BREAK"
PICOL_CONTINUE == "CONTINUE"

PT_ESC == "PT_ESC"
PT_STR == "PT_STR"
PT_CMD == "PT_CMD"
PT_VAR == "PT_VAR"
PT_SEP == "PT_SEP"
PT_EOL == "PT_EOL"
PT_EOF == "PT_EOF"

(***************************************************************************)
(* C loops.  A loop is given by the operator Step that runs one iteration  *)
(* and leaves the state alone once the loop has ended; Iterate(Step, s, n) *)
(* is the state after at most n iterations from s.  (The first half is     *)
(* run first, and the second is skipped when the loop has ended by then.)  *)
(***************************************************************************)
\* F(v) for v the value of e, which is computed once however often F uses it.
With(e, F(_)) == CHOOSE r \in {F(v) : v \in {e}} : TRUE

RECURSIVE IterateFrom(_, _, _)
IterateFrom(Step(_), s, n) ==
  IF n <= 0 THEN s
  ELSE IF n = 1 THEN Step(s)
  ELSE With(IterateFrom(Step, s, n \div 2),
            LAMBDA h : IF Step(h) = h THEN h ELSE IterateFrom(Step, h, n - (n \div 2)))

Iterate(Step(_), s, n) == With(s, LAMBDA v : IterateFrom(Step, v, n))

(***************************************************************************)
(* The parser: struct picolParser is the record                            *)
(*   [text, pos, start, end, len, type, insidequote].                      *)
(***************************************************************************)
picolInitParser(text) ==
  [text |-> text, pos |-> 0, start |-> 0, end |-> 0, len |-> Len(text),
   insidequote |-> FALSE, type |-> PT_EOL]

\* One iteration of the loop of picolParseSep while it is inside the string.
SepStep(text, eol, k) ==
  IF k < Len(text) /\ (~isgraph(text[k + 1]) \/ (eol # NUL /\ text[k + 1] = eol))
  THEN k + 1
  ELSE k

\* The first offset at or after k whose byte is printable and is not the eol
\* byte, or the offset of the NUL.
SepScan(text, k, eol) == Iterate(LAMBDA j : SepStep(text, eol, j), k, Len(text) + 1)

\* Whether the loop of picolParseSep reaches the terminating NUL.  The loop
\* tests neither p->len nor the NUL, and the NUL is not isgraph, so the loop
\* then steps over it and reads the bytes that follow the string in memory.
SepOverruns(p, eol) == SepScan(p.text, p.pos, eol) >= Len(p.text)

\* over: how many of the bytes after the NUL the loop also steps over (they are
\* not part of the string: their values are whatever the memory holds).
picolParseSep(p, eol, over) ==
  LET q == SepScan(p.text, p.pos, eol)
      np == IF q < Len(p.text) THEN q ELSE Len(p.text) + 1 + over
  IN [p EXCEPT !.start = p.pos,
               !.pos = np,
               !.len = p.len - (np - p.pos),
               !.end = np - 1,
               !.type = IF eol # NUL THEN PT_EOL ELSE PT_SEP]

\* One iteration of the loop of picolParseCommand on the cursor
\* s = [pos, len, level, blevel]; at the break, and once len is used up, s stays.
CommandStep(text, s) ==
  LET c == At(text, s.pos)
      next == [s EXCEPT !.pos = s.pos + 1, !.len = s.len - 1]
  IN IF s.len <= 0 THEN s
     ELSE IF c = BACKSLASH
     THEN IF s.len > 1 THEN [s EXCEPT !.pos = s.pos + 2, !.len = s.len - 2] ELSE next
     ELSE IF c = LBRACKET
     THEN IF s.blevel = 0 THEN [next EXCEPT !.level = s.level + 1] ELSE next
     ELSE IF c = RBRACKET
     THEN IF s.blevel = 0
          THEN IF s.level = 1 THEN s ELSE [next EXCEPT !.level = s.level - 1]
          ELSE next
     ELSE IF c = LBRACE THEN [next EXCEPT !.blevel = s.blevel + 1]
     ELSE IF c = RBRACE
     THEN IF s.blevel # 0 THEN [next EXCEPT !.blevel = s.blevel - 1] ELSE next
     ELSE next

picolParseCommand(p) ==
  LET s == Iterate(LAMBDA t : CommandStep(p.text, t),
                   [pos |-> p.pos + 1, len |-> p.len - 1, level |-> 1, blevel |-> 0],
                   p.len)
      closed == At(p.text, s.pos) = RBRACKET
  IN [p EXCEPT !.start = p.pos + 1,
               !.end = s.pos - 1,
               !.type = PT_CMD,
               !.pos = IF closed THEN s.pos + 1 ELSE s.pos,
               !.len = IF closed THEN s.len - 1 ELSE s.len]

\* One iteration of the loop of picolParseVar (the NUL stops it).
VarStep(text, k) ==
  IF isalnum(At(text, k)) \/ At(text, k) = UNDERSCORE THEN k + 1 ELSE k

\* A faulty variant of picolParseVar: a lone $ sets start and end to pos.
ParseVarLoneDollarAtPos(p) ==
  LET st == p.pos + 1
      q == Iterate(LAMBDA j : VarStep(p.text, j), st, Len(p.text) + 1)
  IN IF st = q
     THEN [p EXCEPT !.pos = q, !.len = p.len - 1,
                    !.start = q, !.end = q, !.type = PT_STR]
     ELSE [p EXCEPT !.pos = q, !.len = p.len - 1 - (q - st),
                    !.start = st, !.end = q - 1, !.type = PT_VAR]

picolParseVar(p) ==
  LET st == p.pos + 1
      q == Iterate(LAMBDA j : VarStep(p.text, j), st, Len(p.text) + 1)
  IN IF st = q
     THEN [p EXCEPT !.pos = q, !.len = p.len - 1,
                    !.start = q - 1, !.end = q - 1, !.type = PT_STR]
     ELSE [p EXCEPT !.pos = q, !.len = p.len - 1 - (q - st),
                    !.start = st, !.end = q - 1, !.type = PT_VAR]

\* One iteration of the loop of picolParseBrace on the cursor [pos, len, level].
BraceStep(text, s) ==
  LET c == At(text, s.pos)
      next == [s EXCEPT !.pos = s.pos + 1, !.len = s.len - 1]
  IN IF s.len <= 0 THEN s
     ELSE IF c = LBRACE THEN [next EXCEPT !.level = s.level + 1]
     ELSE IF s.len >= 2 /\ c = BACKSLASH
     THEN [s EXCEPT !.pos = s.pos + 2, !.len = s.len - 2]
     ELSE IF c = RBRACE
     THEN IF s.level = 1 THEN s ELSE [next EXCEPT !.level = s.level - 1]
     ELSE next

picolParseBrace(p) ==
  LET s == Iterate(LAMBDA t : BraceStep(p.text, t),
                   [pos |-> p.pos + 1, len |-> p.len - 1, level |-> 1], p.len)
  IN [p EXCEPT !.start = p.pos + 1,
               !.end = s.pos - 1,
               !.pos = IF s.len > 0 THEN s.pos + 1 ELSE s.pos,
               !.len = IF s.len > 0 THEN s.len - 1 ELSE s.len,
               !.type = PT_STR]

\* One iteration of the loop of picolParseString on the cursor
\* s = [pos, len, closed], q being insidequote: at the goto end s stays, and at
\* the closing quote (the return inside the loop) closed is set, the quote not
\* yet consumed.
StringStep(text, q, s) ==
  LET c == At(text, s.pos)
      next == [s EXCEPT !.pos = s.pos + 1, !.len = s.len - 1]
  IN IF s.len <= 0 \/ s.closed THEN s
     ELSE IF c = DOLLAR \/ c = LBRACKET THEN s
     ELSE IF c = DQUOTE
     THEN IF q THEN [s EXCEPT !.closed = TRUE] ELSE next
     ELSE IF c = BACKSLASH
     THEN IF s.len >= 2 THEN [s EXCEPT !.pos = s.pos + 2, !.len = s.len - 2] ELSE next
     ELSE IF (~isgraph(c) \/ c = SEMI) /\ ~q THEN s
     ELSE next

picolParseString(p) ==
  LET newword == p.type \in {PT_SEP, PT_EOL, PT_STR}
      c == At(p.text, p.pos)
  IN IF newword /\ c = LBRACE THEN picolParseBrace(p)
     ELSE LET quote == newword /\ c = DQUOTE
              q == p.insidequote \/ quote
              st == IF quote THEN p.pos + 1 ELSE p.pos
              s == Iterate(LAMBDA t : StringStep(p.text, q, t),
                           [pos |-> st, len |-> IF quote THEN p.len - 1 ELSE p.len,
                            closed |-> FALSE],
                           p.len + 1)
          IN IF s.closed
             THEN [p EXCEPT !.start = st, !.end = s.pos - 1, !.type = PT_ESC,
                            !.pos = s.pos + 1, !.len = s.len - 1,
                            !.insidequote = FALSE]
             ELSE [p EXCEPT !.start = st, !.end = s.pos - 1, !.type = PT_ESC,
                            !.pos = s.pos, !.len = s.len, !.insidequote = q]

\* One iteration of the loop of picolParseComment on the cursor [pos, len].
CommentStep(text, s) ==
  IF s.len # 0 /\ At(text, s.pos) # NL
  THEN [pos |-> s.pos + 1, len |-> s.len - 1]
  ELSE s

picolParseComment(p) ==
  LET s == Iterate(LAMBDA t : CommentStep(p.text, t),
                   [pos |-> p.pos, len |-> p.len], p.len + 1)
  IN [p EXCEPT !.pos = s.pos, !.len = s.len]

\* A faulty variant of TokenAtEnd: the end of the input is always a PT_EOL.
TokenAtEndAlwaysEol(p) == [p EXCEPT !.type = PT_EOL]

\* Line 200: the token picolGetToken returns once p->len is used up.
TokenAtEnd(p) ==
  [p EXCEPT !.type = IF p.type # PT_EOL /\ p.type # PT_EOF THEN PT_EOL ELSE PT_EOF]

\* picolGetToken; over is handed to picolParseSep.  The while loop runs again
\* only after a comment, which leaves the cursor at a newline or at the end.
RECURSIVE picolGetToken(_, _)
picolGetToken(p, over) ==
  IF p.len > 0
  THEN LET c == At(p.text, p.pos) IN
    IF c = NL \/ c = SEMI
    THEN IF p.insidequote THEN picolParseString(p) ELSE picolParseSep(p, SEMI, over)
    ELSE IF c = LBRACKET THEN picolParseCommand(p)
    ELSE IF c = DOLLAR THEN picolParseVar(p)
    ELSE IF c = HASH
    THEN IF p.type # PT_EOL THEN picolParseString(p)
                            ELSE picolGetToken(picolParseComment(p), over)
    ELSE IF isgraph(c) \/ p.insidequote THEN picolParseString(p)
    ELSE picolParseSep(p, NUL, over)
  ELSE TokenAtEnd(p)

\* Whether this call of picolGetToken runs the loop of picolParseSep over the
\* string's NUL.
RECURSIVE TokenOverruns(_)
TokenOverruns(p) ==
  IF p.len > 0
  THEN LET c == At(p.text, p.pos) IN
    IF c = NL \/ c = SEMI THEN ~p.insidequote /\ SepOverruns(p, SEMI)
    ELSE IF c = LBRACKET \/ c = DOLLAR THEN FALSE
    ELSE IF c = HASH
    THEN p.type = PT_EOL /\ TokenOverruns(picolParseComment(p))
    ELSE ~(isgraph(c) \/ p.insidequote) /\ SepOverruns(p, NUL)
  ELSE FALSE

(***************************************************************************)
(* C strings.                                                              *)
(***************************************************************************)
\* strlen of a buffer that holds a NUL at offset Len(b) at the latest.
strlen(b) == Iterate(LAMBDA k : IF At(b, k) # NUL THEN k + 1 ELSE k, 0, Len(b) + 1)

\* The C string held in a buffer: its bytes before the first NUL.
CStr(b) == SubSeq(b, 1, strlen(b))

\* memcpy(malloc(tlen+1), text+start, tlen) for a token inside the string.
Slice(text, start, tlen) ==
  IF tlen <= 0 THEN <<>> ELSE [k \in 1..tlen |-> At(text, start + k - 1)]

(***************************************************************************)
(* The escape decoder.                                                     *)
(***************************************************************************)
toxdigit(c) == IF isalpha(c) THEN 10 + (toupper(c) - Ord("A")) ELSE c - ZERO

\* A value stored into a char, as the byte it holds.
ToByte(v) == v % 256

\* strchr(b, '\\'): the offset of the first backslash of b, or -1.
strchrBackslash(b) ==
  LET k == Iterate(LAMBDA j : IF j < Len(b) /\ b[j + 1] # BACKSLASH THEN j + 1 ELSE j,
                   0, Len(b) + 1)
  IN IF k < Len(b) THEN k ELSE 0 - 1

\* for (s++, n--; n > 0 && !isgraph(*s); s++, n--);  after its first s++, n--
EscapeSkip(M, s, n) ==
  Iterate(LAMBDA k : IF k.n > 0 /\ ~isgraph(At(M, k.s))
                     THEN [s |-> k.s + 1, n |-> k.n - 1] ELSE k,
          [s |-> s, n |-> n], Len(M) + 1)

\* One iteration of the loop of picolEscape over the memory M (the buffer, its
\* NUL, and the bytes that follow it) on e = [s, n, out]: s the read offset, n
\* the running length and out the bytes written through t so far.  isa is the
\* value isalpha returns for a letter.
EscapeStep(M, isa, e) ==
  LET c == At(M, e.s)
      d == At(M, e.s + 1)
      h1 == At(M, e.s + 2)
      h2 == At(M, e.s + 3)
  IN IF c = NUL THEN e
     ELSE IF c # BACKSLASH THEN [e EXCEPT !.s = e.s + 1, !.out = Append(e.out, c)]
     ELSE IF d = Ord("X") \/ d = Ord("x")
     THEN IF isxdigit(h1) /\ isxdigit(h2)
          THEN [s |-> e.s + 4, n |-> e.n - 4,
                out |-> Append(e.out, ToByte(toxdigit(h1) * 16 + toxdigit(h2)))]
          ELSE IF isxdigit(h1)
          THEN [s |-> e.s + 3, n |-> e.n - 3,
                out |-> Append(e.out, ToByte(toxdigit(IF isalpha(h1) THEN isa ELSE 0)))]
          ELSE [e EXCEPT !.s = e.s + 2, !.n = e.n - 2]
     ELSE IF d = Ord("n") THEN [s |-> e.s + 2, n |-> e.n - 1, out |-> Append(e.out, NL)]
     ELSE IF d = Ord("r") THEN [s |-> e.s + 2, n |-> e.n - 1, out |-> Append(e.out, Ord("\r"))]
     ELSE IF d = Ord("t") THEN [s |-> e.s + 2, n |-> e.n - 1, out |-> Append(e.out, Ord("\t"))]
     ELSE IF d = NUL THEN [e EXCEPT !.s = e.s + 1, !.n = e.n - 1]
     ELSE IF isgraph(d) THEN [s |-> e.s + 2, n |-> e.n - 1, out |-> Append(e.out, d)]
     ELSE LET k == EscapeSkip(M, e.s + 2, e.n - 2)
          IN [e EXCEPT !.s = k.s, !.n = k.n]

\* picolEscape(b, n) on a buffer holding the n bytes b and their NUL, followed in
\* memory by the bytes junk (and then by a NUL).  [buf, n, s, out]: the first n
\* bytes of the buffer at the return, the length n returned, the offset where
\* the read pointer stopped, and the bytes stored through t, from the first
\* backslash on.
picolEscape(b, n, junk, isa) ==
  LET first == strchrBackslash(b)
      M == b \o <<NUL>> \o junk
  IN IF first < 0 THEN [buf |-> b, n |-> n, s |-> first, out |-> <<>>]
     ELSE LET r == Iterate(LAMBDA e : EscapeStep(M, isa, e),
                           [s |-> first, n |-> n, out |-> <<>>], Len(M) + 1)
              w == SubSeq(b, 1, first) \o r.out
              m == w \o SubSeq(M, Len(w) + 1, Len(M))
          IN [buf |-> SubSeq(m, 1, IF r.n < 0 THEN 0 ELSE r.n), n |-> r.n, s |-> r.s,
              out |-> r.out]

\* Whether picolEscape(b, n) reads a byte after the buffer's NUL.
EscapeOverruns(b, n) == picolEscape(b, n, <<SPACE>>, 1).s > Len(b)

(***************************************************************************)
(* atoi, int arithmetic and "%d".                                          *)
(***************************************************************************)
CHAR_BIT == 8
SizeofInt == 4
INT_MAX == (2 ^ (SizeofInt * CHAR_BIT - 2) - 1) * 2 + 1
INT_MIN == (0 - INT_MAX) - 1

\* The int arithmetic of the machine, which wraps modulo 2^32.  The model's
\* own integers are no wider than an int, so the wrapped result is computed
\* without ever forming the unwrapped one.
AddInt(a, b) ==
  IF b > 0 /\ a > INT_MAX - b THEN (a + INT_MIN) + (b + INT_MIN)
  ELSE IF b < 0 /\ a < INT_MIN - b THEN (a - INT_MIN) + (b - INT_MIN)
  ELSE a + b

NegInt(a) == IF a = INT_MIN THEN INT_MIN ELSE 0 - a

SubInt(a, b) ==
  IF b = INT_MIN THEN AddInt(AddInt(a, INT_MAX), 1) ELSE AddInt(a, 0 - b)

\* a * b for b >= 0, from a * (b div 2).
RECURSIVE MulNat(_, _)
MulNat(a, b) ==
  IF b = 0 THEN 0
  ELSE LET h == MulNat(a, b \div 2)
       IN AddInt(AddInt(h, h), IF b % 2 = 1 THEN a ELSE 0)

MulInt(a, b) ==
  IF b = INT_MIN THEN (IF a % 2 = 1 THEN INT_MIN ELSE 0)
  ELSE IF b < 0 THEN NegInt(MulNat(a, 0 - b))
  ELSE MulNat(a, b)

SkipSpace(s, k) ==
  Iterate(LAMBDA j : IF isspace(At(s, j)) THEN j + 1 ELSE j, k, Len(s) + 1)

\* 10 * a as an int.
TimesTen(a) ==
  LET a2 == AddInt(a, a)
      a4 == AddInt(a2, a2)
      a8 == AddInt(a4, a4)
  IN AddInt(a8, a2)

\* The value, as an int, of the digits that start at offset j.
DigitsValue(s, j) ==
  Iterate(LAMBDA d : IF isdigit(At(s, d.k))
                     THEN [k |-> d.k + 1,
                           acc |-> AddInt(TimesTen(d.acc), At(s, d.k) - ZERO)]
                     ELSE d,
          [k |-> j, acc |-> 0], Len(s) + 1).acc

\* atoi, which is (int)strtol(s, NULL, 10): blanks, an optional sign, then
\* digits; anything else ends the number.  The int is the low 32 bits of the
\* long (for a number the long holds).
atoi(s) ==
  LET k == SkipSpace(s, 0)
      neg == At(s, k) = MINUS
      j == IF At(s, k) = MINUS \/ At(s, k) = PLUS THEN k + 1 ELSE k
      v == DigitsValue(s, j)
  IN IF neg THEN NegInt(v) ELSE v

\* The decimal digits of v >= 0 (an int has at most ten).
RECURSIVE DecimalDigits(_)
DecimalDigits(v) ==
  IF v < 10 THEN <<ZERO + v>> ELSE Append(DecimalDigits(v \div 10), ZERO + (v % 10))

\* The decimal digits of -v for v <= 0 (INT_MIN has no positive counterpart).
RECURSIVE DecimalDigitsNeg(_)
DecimalDigitsNeg(v) ==
  LET r == (10 - (v % 10)) % 10
  IN IF v > 0 - 10 THEN <<ZERO - v>>
     ELSE Append(DecimalDigitsNeg((v + r) \div 10), ZERO + r)

\* What "%d" formats for c.
FormatInt(c) == IF c < 0 THEN <<MINUS>> \o DecimalDigitsNeg(c) ELSE DecimalDigits(c)

\* snprintf(buf, size, ...): at most size-1 bytes of the formatted text are kept.
snprintf(size, text) == SubSeq(text, 1, IF Len(text) < size - 1 THEN Len(text) ELSE size - 1)

\* char buf[(sizeof(int)*CHAR_BIT)/3] of picolCommandMath.
MathBufSize == (SizeofInt * CHAR_BIT) \div 3

\* a / b in C: the quotient truncated toward zero.
DivPos(a, b) == IF a < 0 /\ a % b # 0 THEN (a \div b) + 1 ELSE a \div b

CDiv(a, b) ==
  IF b = INT_MIN THEN (IF a = INT_MIN THEN 1 ELSE 0)
  ELSE IF b > 0 THEN DivPos(a, b)
  ELSE 0 - DivPos(a, 0 - b)

\* int o = argv[0][0] ^ argv[0][1]<<8: the two bytes are below 128 and the
\* second is shifted clear of the first, so the xor is their sum.
OpCode(name) == At(name, 0) + At(name, 1) * 256

OpOf(s) == OpCode(Bytes(s))

\* Whether the division of picolCommandMath traps (the machine's idiv faults on
\* a zero divisor and on INT_MIN / -1).
MathTraps(o, a, b) == o = OpOf("/") /\ (b = 0 \/ (a = INT_MIN /\ b = 0 - 1))

\* The value c that picolCommandMath computes for operator code o.
MathValue(o, a, b) ==
  IF o = OpOf("+") THEN AddInt(a, b)
  ELSE IF o = OpOf("-") THEN SubInt(a, b)
  ELSE IF o = OpOf("*") THEN MulInt(a, b)
  ELSE IF o = OpOf("/") THEN CDiv(a, b)
  ELSE IF o = OpOf(">") THEN (IF a > b THEN 1 ELSE 0)
  ELSE IF o = OpOf(">=") THEN (IF a >= b THEN 1 ELSE 0)
  ELSE IF o = OpOf("<") THEN (IF a < b THEN 1 ELSE 0)
  ELSE IF o = OpOf("<=") THEN (IF a <= b THEN 1 ELSE 0)
  ELSE IF o = OpOf("==") THEN (IF a = b THEN 1 ELSE 0)
  ELSE IF o = OpOf("!=") THEN (IF a # b THEN 1 ELSE 0)
  ELSE 0

\* The text picolCommandMath leaves in buf.
MathResult(name, x, y) ==
  snprintf(MathBufSize, FormatInt(MathValue(OpCode(name), atoi(x), atoi(y))))

(***************************************************************************)
(* The environment and the command registry.  A call frame is its list     *)
(* vars of [name, val], the head of the list first; the registry is the    *)
(* list i->commands of [name, func, privdata], the head first.             *)
(***************************************************************************)
\* The position in the list of the first entry called name, or 0 (NULL).
Lookup(list, name) ==
  IF \E k \in 1..Len(list) : list[k].name = name
  THEN CHOOSE k \in 1..Len(list) :
         list[k].name = name /\ \A j \in 1..(k - 1) : list[j].name # name
  ELSE 0

picolGetVar(vars, name) == Lookup(vars, name)

\* A faulty variant of picolSetVar: every call adds a binding at the head.
SetVarAlwaysAdds(vars, name, val) == <<[name |-> name, val |-> val]>> \o vars

\* picolSetVar on the frame whose list is vars: the list afterwards.
picolSetVar(vars, name, val) ==
  LET v == picolGetVar(vars, name)
  IN IF v # 0 THEN [vars EXCEPT ![v].val = val]
     ELSE <<[name |-> name, val |-> val]>> \o vars

picolGetCommand(cmds, name) == Lookup(cmds, name)

\* Whether picolRegisterCommand finds the name taken (and returns picolErr).
RegisterFails(cmds, name) == picolGetCommand(cmds, name) # 0

\* A faulty variant of picolRegisterCommand: a taken name gets the new handler.
RegisterReplaces(cmds, name, f, privdata) ==
  IF picolGetCommand(cmds, name) # 0
  THEN [cmds EXCEPT ![picolGetCommand(cmds, name)] =
          [name |-> name, func |-> f, privdata |-> privdata]]
  ELSE <<[name |-> name, func |-> f, privdata |-> privdata]>> \o cmds

\* picolRegisterCommand: the registry afterwards.
picolRegisterCommand(cmds, name, f, privdata) ==
  IF RegisterFails(cmds, name) THEN cmds
  ELSE <<[name |-> name, func |-> f, privdata |-> privdata]>> \o cmds

\* The names picolRegisterCoreCommands registers, in its order.
CoreNames ==
  <<"+", "-", "*", "/", ">", ">=", "<", "<=", "==", "!=",
    "set", "puts", "if", "while", "break", "continue", "proc", "return">>

CoreFunc(name) ==
  IF name = "set" THEN "picolCommandSet"
  ELSE IF name = "puts" THEN "picolCommandPuts"
  ELSE IF name = "if" THEN "picolCommandIf"
  ELSE IF name = "while" THEN "picolCommandWhile"
  ELSE IF name \in {"break", "continue"} THEN "picolCommandRetCodes"
  ELSE IF name = "proc" THEN "picolCommandProc"
  ELSE IF name = "return" THEN "picolCommandReturn"
  ELSE "picolCommandMath"

RegisterCoreStep(e) ==
  IF e.k > Len(CoreNames) THEN e
  ELSE [k |-> e.k + 1,
        cmds |-> picolRegisterCommand(e.cmds, Bytes(CoreNames[e.k]),
                                      CoreFunc(CoreNames[e.k]), <<>>)]

\* The registry after picolRegisterCoreCommands on a new interpreter.
picolRegisterCoreCommands ==
  Iterate(RegisterCoreStep, [k |-> 1, cmds |-> <<>>], Len(CoreNames) + 1).cmds

(***************************************************************************)
(* Messages of picolErr.                                                   *)
(***************************************************************************)
ErrNoSuchVariable(name) == Bytes("No such variable '") \o name \o Bytes("'")
ErrNoSuchCommand(name) == Bytes("No such command '") \o name \o Bytes("'")
ErrAlreadyDefined(name) == Bytes("Command '") \o name \o Bytes("' already defined")
ErrProcArity(name) == Bytes("Proc '") \o name \o Bytes("' called with wrong arg num")
\* picolArityErr
ErrArity(name) == Bytes("Wrong number of args for ") \o name

(***************************************************************************)
(* Bounds of the model.                                                    *)
(***************************************************************************)
\* How many times the host calls picolEval on one interpreter.
MaxEvals == 3
\* How deep the C call stack may grow (picolEval and handler activations).
MaxStack == 14
\* How many bytes after a string's NUL a scan that runs over the NUL may cross.
MaxOver == 1

\* Values the bytes after a buffer's NUL may hold.
JunkBytes == {NUL, SPACE, Ord("A")}
\* The nonzero values isalpha returns for a letter in the C libraries at hand.
IsalphaResults == {1, 2, 1024}

(***************************************************************************)
(* The state.                                                              *)
(***************************************************************************)
VARIABLES
  level,      \* i->level
  callframe,  \* the chain of call frames, the global frame first and
              \* i->callframe last; each frame is its list vars
  commands,   \* i->commands
  result,     \* i->result
  stack,      \* the C call stack above the host: the activations of picolEval
              \* and of the handlers that call it, the innermost last
  ret,        \* the value a call has just returned, until its caller takes it
  host,       \* "idle", "eval" (inside picolEval) or "fault" (the process died)
  hostcode,   \* the code the host's last picolEval returned
  nevals,     \* how many picolEval calls the host has made
  buf,        \* the source the host last handed to picolEval
  out,        \* the lines written to stdout
  tokenizer,  \* a struct picolParser driven on its own, token by token
  decoder     \* a word buffer handed to picolEscape on its own

vars == <<level, callframe, commands, result, stack, ret, host, hostcode, nevals, buf, out,
          tokenizer, decoder>>

NoRet == [code |-> "none", from |-> "none"]

Top == stack[Len(stack)]
Below == SubSeq(stack, 1, Len(stack) - 1)

\* A faulty variant of CurrentFrame: the global frame, whatever the depth.
GlobalFrame(cf) == Len(cf) - Len(cf) + 1

\* The frame picolGetVar and picolSetVar work on: i->callframe.
CurrentFrame(cf) == Len(cf)

\* i->callframe->vars
CurrentVars(cf) == cf[CurrentFrame(cf)]

\* An activation of picolEval(i, text) entered with i->callframe at depth
\* frame0: its locals p, prevtype, argv and retcode (argc is Len(argv)), and
\* where it stands: "loop" (before picolGetToken), "cmd" (inside the picolEval
\* of line 306) or "call" (at or inside c->func of line 324).
EvalActivation(text, frame0) ==
  [func |-> "picolEval", pc |-> "loop", argv |-> <<>>, pd |-> <<>>,
   p |-> picolInitParser(text), prevtype |-> PT_EOL, retcode |-> PICOL_OK,
   frame0 |-> frame0]

\* An activation of a handler that is inside a picolEval it called.
HandlerActivation(func, pc, argv, pd) ==
  [func |-> func, pc |-> pc, argv |-> argv, pd |-> pd,
   p |-> picolInitParser(<<>>), prevtype |-> PT_EOL, retcode |-> PICOL_OK,
   frame0 |-> 0]

\* picolInitInterp, then picolRegisterCoreCommands (main, lines 482-483).
InitInterp ==
  /\ level = 0
  /\ callframe = << <<>> >>
  /\ commands = picolRegisterCoreCommands
  /\ result = <<>>
  /\ stack = <<>>
  /\ ret = NoRet
  /\ host = "idle"
  /\ hostcode = PICOL_OK
  /\ nevals = 0
  /\ buf = <<>>
  /\ out = <<>>

\* The tokenizer driver on the source text, before its first picolGetToken:
\* the parser p, and of the loop of picolEval around it argc (as it goes when
\* every variable is bound and every command substitution returns PICOL_OK);
\* dispatched counts the calls c->func(...) of line 324, calls counts the
\* picolGetToken calls (up to three more than the source has bytes), and
\* crashed says that the last one read memory that is not mapped.
TokenizerOn(text) ==
  [p |-> picolInitParser(text), argc |-> 0, dispatched |-> 0, calls |-> 0,
   crashed |-> FALSE]

\* A word buffer b before picolEscape(b, strlen(b)), and after it: r is what
\* picolEscape returned, junk the bytes that followed the buffer in memory
\* and isa the value isalpha gave for a letter.
DecoderOn(b) ==
  [b |-> b, done |-> FALSE, junk |-> <<>>, isa |-> 1,
   r |-> [buf |-> <<>>, n |-> 0, s |-> 0, out |-> <<>>]]

\* The interpreter alone: no parser and no buffer is driven on its own.
Init ==
  /\ InitInterp
  /\ tokenizer = TokenizerOn(<<>>)
  /\ decoder = DecoderOn(<<>>)

\* return code; from the function func
Return(code, func) ==
  /\ stack' = Below
  /\ ret' = [code |-> code, from |-> func]

\* The top activation is picolEval's, standing at pc.
InEval(pc) ==
  /\ host = "eval"
  /\ stack # <<>>
  /\ Top.func = "picolEval"
  /\ Top.pc = pc

\* The top activation is func's, and the picolEval it called has returned.
Returned(func, pc) ==
  /\ host = "eval"
  /\ stack # <<>>
  /\ Top.func = func
  /\ Top.pc = pc
  /\ ret # NoRet

(***************************************************************************)
(* picolEval.                                                              *)
(***************************************************************************)
\* The unknown memory a call of picolGetToken or picolEscape may read.
OverChoices(p) == IF TokenOverruns(p) THEN 0..MaxOver ELSE {0}

\* Whether the loop of picolParseSep, once over the NUL, runs on to memory
\* that is not mapped: it may, when it runs over the NUL at all.
CrashChoices(p) == IF TokenOverruns(p) THEN BOOLEAN ELSE {FALSE}

TokenLen(p) == IF p.end - p.start + 1 < 0 THEN 0 ELSE p.end - p.start + 1
TokenText(p) == Slice(p.text, p.start, TokenLen(p))

\* The bytes the token p hands to picolEscape (none if it is not PT_ESC).
EscText(p) == IF p.type = PT_ESC THEN TokenText(p) ELSE <<>>

JunkChoices(esc) ==
  IF EscapeOverruns(esc, Len(esc)) THEN [1..MaxOver -> JunkBytes] ELSE {<<>>}

IsalphaChoices(esc) ==
  IF strchrBackslash(esc) >= 0 THEN IsalphaResults ELSE {1}

\* A faulty variant of EvalBreaks: only PICOL_ERR breaks the loop.
EvalBreaksOnErrOnly(retcode) == retcode = PICOL_ERR

\* if (retcode != PICOL_OK) break;  (lines 308 and 325)
EvalBreaks(retcode) == retcode # PICOL_OK

\* Lines 335-345: the token t is a new argument or is appended to the last one.
AppendToken(argv, prevtype, t) ==
  IF prevtype = PT_SEP \/ prevtype = PT_EOL
  THEN Append(argv, CStr(t))
  ELSE [argv EXCEPT ![Len(argv)] = CStr(argv[Len(argv)] \o t)]

\* Whether lines 340-343 index argv[argc-1] with argc = 0, argv being NULL.
InterpolatesNothing(argv, prevtype) ==
  ~(prevtype = PT_SEP \/ prevtype = PT_EOL) /\ argv = <<>>

\* One turn of the for loop of picolEval, up to the call it makes (if any) or
\* to its return.
picolEval ==
  /\ InEval("loop")
  /\ ret = NoRet
  /\ \E crash \in CrashChoices(Top.p) :
     IF crash THEN host' = "fault" /\ UNCHANGED <<result, stack, ret>> ELSE
     \E over \in OverChoices(Top.p) :
     \E p \in {picolGetToken(Top.p, over)} :
     \E esc \in {EscText(p)} :
     \E junk \in JunkChoices(esc), isa \in IsalphaChoices(esc) :
       LET a == Top
           t == TokenText(p)
           next == [a EXCEPT !.p = p, !.prevtype = p.type]
           v == picolGetVar(CurrentVars(callframe), t)
           c == picolGetCommand(commands, a.argv[1])
           word == IF p.type = PT_VAR THEN CurrentVars(callframe)[v].val
                   ELSE IF p.type = PT_ESC THEN picolEscape(esc, Len(esc), junk, isa).buf
                   ELSE t
       IN CASE p.type = PT_EOF ->
                 /\ Return(a.retcode, "picolEval")
                 /\ UNCHANGED <<result, host>>
            [] p.type = PT_VAR /\ v = 0 ->
                 /\ result' = ErrNoSuchVariable(t)
                 /\ Return(PICOL_ERR, "picolEval")
                 /\ UNCHANGED host
            [] p.type = PT_CMD ->
                 /\ Len(stack) < MaxStack
                 /\ result' = <<>>
                 /\ stack' = Append(Append(Below, [a EXCEPT !.p = p, !.pc = "cmd"]),
                                    EvalActivation(t, Len(callframe)))
                 /\ UNCHANGED <<ret, host>>
            [] p.type = PT_SEP ->
                 /\ stack' = Append(Below, next)
                 /\ UNCHANGED <<result, ret, host>>
            [] p.type = PT_EOL /\ a.argv = <<>> ->
                 /\ stack' = Append(Below, next)
                 /\ UNCHANGED <<result, ret, host>>
            [] p.type = PT_EOL /\ a.argv # <<>> /\ c = 0 ->
                 /\ result' = ErrNoSuchCommand(a.argv[1])
                 /\ Return(PICOL_ERR, "picolEval")
                 /\ UNCHANGED host
            [] p.type = PT_EOL /\ a.argv # <<>> /\ c # 0 ->
                 /\ stack' = Append(Below, [next EXCEPT !.pc = "call"])
                 /\ UNCHANGED <<result, ret, host>>
            [] OTHER ->
                 IF InterpolatesNothing(a.argv, a.prevtype)
                 THEN /\ host' = "fault"
                      /\ UNCHANGED <<result, stack, ret>>
                 ELSE /\ stack' = Append(Below,
                             [next EXCEPT !.argv = AppendToken(a.argv, a.prevtype, word)])
                      /\ UNCHANGED <<result, ret, host>>
  /\ UNCHANGED <<level, tokenizer, decoder, callframe, commands, hostcode, nevals, buf, out>>

\* Lines 306-310: the picolEval of a command substitution has returned.
picolEvalCmd ==
  /\ InEval("cmd")
  /\ ret # NoRet
  /\ IF EvalBreaks(ret.code)
     THEN Return(ret.code, "picolEval") /\ UNCHANGED host
     ELSE IF InterpolatesNothing(Top.argv, Top.prevtype)
     THEN host' = "fault" /\ UNCHANGED <<stack, ret>>
     ELSE /\ stack' = Append(Below,
                 [Top EXCEPT !.pc = "loop", !.retcode = ret.code,
                             !.prevtype = Top.p.type,
                             !.argv = AppendToken(Top.argv, Top.prevtype, result)])
          /\ ret' = NoRet
          /\ UNCHANGED host
  /\ UNCHANGED <<level, tokenizer, decoder, callframe, commands, result, hostcode, nevals, buf, out>>

\* Lines 324-332: the handler c->func has returned.
picolEvalCall ==
  /\ InEval("call")
  /\ ret # NoRet
  /\ IF EvalBreaks(ret.code)
     THEN Return(ret.code, "picolEval")
     ELSE /\ stack' = Append(Below,
                 [Top EXCEPT !.pc = "loop", !.retcode = ret.code, !.argv = <<>>])
          /\ ret' = NoRet
  /\ UNCHANGED <<level, tokenizer, decoder, callframe, commands, result, host, hostcode, nevals, buf, out>>

(***************************************************************************)
(* The command handlers.  A handler is called by picolEval standing at     *)
(* "call"; one that calls picolEval itself gets an activation of its own.  *)
(***************************************************************************)
\* c->func of line 324 is func, and has not been called yet.
Calls(func) ==
  /\ InEval("call")
  /\ ret = NoRet
  /\ commands[picolGetCommand(commands, Top.argv[1])].func = func

\* c->privdata of line 324
Privdata == commands[picolGetCommand(commands, Top.argv[1])].privdata

\* return picolArityErr(i, argv[0]);
ReturnArityErr(func) ==
  /\ result' = ErrArity(Top.argv[1])
  /\ ret' = [code |-> PICOL_ERR, from |-> func]
  /\ UNCHANGED stack

\* The handler func, standing at pc, calls picolEval(i, text).
CallEval(func, pc, text) ==
  /\ Len(stack) + 2 <= MaxStack
  /\ result' = <<>>
  /\ ret' = NoRet
  /\ stack' = Append(Append(stack, HandlerActivation(func, pc, Top.argv, Privdata)),
                     EvalActivation(text, Len(callframe)))

\* The handler on top of the stack, now standing at pc, calls picolEval again.
CallEvalAgain(pc, text) ==
  /\ result' = <<>>
  /\ ret' = NoRet
  /\ stack' = Append(Append(Below, [Top EXCEPT !.pc = pc]),
                     EvalActivation(text, Len(callframe)))

picolCommandMath ==
  /\ Calls("picolCommandMath")
  /\ LET argv == Top.argv
     IN IF Len(argv) # 3
        THEN ReturnArityErr("picolCommandMath") /\ UNCHANGED host
        ELSE IF MathTraps(OpCode(argv[1]), atoi(argv[2]), atoi(argv[3]))
        THEN host' = "fault" /\ UNCHANGED <<result, ret, stack>>
        ELSE /\ result' = MathResult(argv[1], argv[2], argv[3])
             /\ ret' = [code |-> PICOL_OK, from |-> "picolCommandMath"]
             /\ UNCHANGED <<stack, host>>
  /\ UNCHANGED <<level, tokenizer, decoder, callframe, commands, hostcode, nevals, buf, out>>

picolCommandSet ==
  /\ Calls("picolCommandSet")
  /\ LET argv == Top.argv
         f == CurrentFrame(callframe)
     IN IF Len(argv) # 3
        THEN ReturnArityErr("picolCommandSet") /\ UNCHANGED callframe
        ELSE /\ callframe' = [callframe EXCEPT ![f] = picolSetVar(@, argv[2], argv[3])]
             /\ result' = argv[3]
             /\ ret' = [code |-> PICOL_OK, from |-> "picolCommandSet"]
             /\ UNCHANGED stack
  /\ UNCHANGED <<level, tokenizer, decoder, commands, host, hostcode, nevals, buf, out>>

picolCommandPuts ==
  /\ Calls("picolCommandPuts")
  /\ LET argv == Top.argv
     IN IF Len(argv) # 2
        THEN ReturnArityErr("picolCommandPuts") /\ UNCHANGED out
        ELSE /\ out' = Append(out, argv[2])
             /\ ret' = [code |-> PICOL_OK, from |-> "picolCommandPuts"]
             /\ UNCHANGED <<result, stack>>
  /\ UNCHANGED <<level, tokenizer, decoder, callframe, commands, host, hostcode, nevals, buf>>

\* picolCommandIf up to its first picolEval (lines 389-390).
picolCommandIf ==
  /\ Calls("picolCommandIf")
  /\ LET argv == Top.argv
     IN IF Len(argv) # 3 /\ Len(argv) # 5
        THEN ReturnArityErr("picolCommandIf")
        ELSE CallEval("picolCommandIf", "cond", argv[2])
  /\ UNCHANGED <<level, tokenizer, decoder, callframe, commands, host, hostcode, nevals, buf, out>>

\* A faulty variant of IfTakesThen: the test of line 391 negated.
IfTakesThenNegated(res) == atoi(res) = 0

\* if (atoi(i->result))  (line 391)
IfTakesThen(res) == atoi(res) # 0

\* Lines 390-393, from the return of the condition's picolEval.
picolCommandIfCond ==
  /\ Returned("picolCommandIf", "cond")
  /\ LET argv == Top.argv
     IN IF ret.code # PICOL_OK
        THEN Return(ret.code, "picolCommandIf") /\ UNCHANGED result
        ELSE IF IfTakesThen(result) THEN CallEvalAgain("branch", argv[3])
        ELSE IF Len(argv) = 5 THEN CallEvalAgain("branch", argv[5])
        ELSE Return(PICOL_OK, "picolCommandIf") /\ UNCHANGED result
  /\ UNCHANGED <<level, tokenizer, decoder, callframe, commands, host, hostcode, nevals, buf, out>>

\* return picolEval(i, argv[2]) and return picolEval(i, argv[4]): the return.
picolCommandIfBranch ==
  /\ Returned("picolCommandIf", "branch")
  /\ Return(ret.code, "picolCommandIf")
  /\ UNCHANGED <<level, tokenizer, decoder, callframe, commands, result, host, hostcode, nevals, buf, out>>

\* picolCommandWhile up to its first picolEval (lines 397-398 and 403).
picolCommandWhile ==
  /\ Calls("picolCommandWhile")
  /\ LET argv == Top.argv
     IN IF Len(argv) # 3
        THEN ReturnArityErr("picolCommandWhile")
        ELSE CallEval("picolCommandWhile", "cond", argv[2])
  /\ UNCHANGED <<level, tokenizer, decoder, callframe, commands, host, hostcode, nevals, buf, out>>

\* Lines 398-400, from the return of the condition's picolEval.
picolCommandWhileCond ==
  /\ Returned("picolCommandWhile", "cond")
  /\ IF ret.code # PICOL_OK
     THEN Return(ret.code, "picolCommandWhile") /\ UNCHANGED result
     ELSE IF atoi(result) = 0
     THEN Return(PICOL_OK, "picolCommandWhile") /\ UNCHANGED result
     ELSE CallEvalAgain("body", Top.argv[3])
  /\ UNCHANGED <<level, tokenizer, decoder, callframe, commands, host, hostcode, nevals, buf, out>>

\* A faulty variant of WhileReturns: only PICOL_CONTINUE goes round again.
WhileReturnsUnlessContinue(retcode) == retcode # PICOL_CONTINUE

\* Lines 400-402: whether the code the body returned makes the loop return it.
\* PICOL_CONTINUE and PICOL_OK continue; of the others only those that are not
\* PICOL_BREAK return, and PICOL_BREAK falls off the end of the loop's
\* statement, after which the for loop tests argc == 3 and goes round again.
WhileReturns(retcode) ==
  IF retcode = PICOL_CONTINUE THEN FALSE
  ELSE IF retcode = PICOL_OK THEN FALSE
  ELSE IF retcode # PICOL_BREAK THEN TRUE
  ELSE FALSE

\* Lines 400-402, from the return of the body's picolEval.
picolCommandWhileBody ==
  /\ Returned("picolCommandWhile", "body")
  /\ IF WhileReturns(ret.code)
     THEN Return(ret.code, "picolCommandWhile") /\ UNCHANGED result
     ELSE CallEvalAgain("cond", Top.argv[2])
  /\ UNCHANGED <<level, tokenizer, decoder, callframe, commands, host, hostcode, nevals, buf, out>>

picolCommandRetCodes ==
  /\ Calls("picolCommandRetCodes")
  /\ LET argv == Top.argv
     IN IF Len(argv) # 1
        THEN ReturnArityErr("picolCommandRetCodes")
        ELSE /\ ret' = [code |-> IF argv[1] = Bytes("break") THEN PICOL_BREAK
                                 ELSE IF argv[1] = Bytes("continue") THEN PICOL_CONTINUE
                                 ELSE PICOL_OK,
                        from |-> "picolCommandRetCodes"]
             /\ UNCHANGED <<result, stack>>
  /\ UNCHANGED <<level, tokenizer, decoder, callframe, commands, host, hostcode, nevals, buf, out>>

\* A faulty variant of picolDropCallFrame: line 421 left out.
DropCallFrameKeepsFrame(cf) == cf

\* i->callframe after picolDropCallFrame.
picolDropCallFrame(cf) == SubSeq(cf, 1, Len(cf) - 1)

\* The words the loop of lines 432-439 cuts out of alist: the maximal runs of
\* bytes other than ' '.
FormalsStep(alist, e) ==
  IF e.k > Len(alist) THEN e
  ELSE IF e.k < Len(alist) /\ alist[e.k + 1] # SPACE
  THEN [e EXCEPT !.k = e.k + 1, !.cur = Append(e.cur, alist[e.k + 1])]
  ELSE [k |-> e.k + 1, cur |-> <<>>,
        words |-> IF e.cur = <<>> THEN e.words ELSE Append(e.words, e.cur)]

Formals(alist) ==
  Iterate(LAMBDA e : FormalsStep(alist, e),
          [k |-> 0, cur |-> <<>>, words |-> <<>>], Len(alist) + 2).words

\* The list vars of the new frame after picolSetVar(i, start, argv[arity]) for
\* each formal in turn (line 438).
BindStep(words, argv, e) ==
  IF e.k > Len(words) THEN e
  ELSE [k |-> e.k + 1, vars |-> picolSetVar(e.vars, words[e.k], argv[e.k + 1])]

BindFormals(words, argv) ==
  Iterate(LAMBDA e : BindStep(words, argv, e), [k |-> 1, vars |-> <<>>],
          Len(words) + 1).vars

\* A faulty variant of ArityMismatch: line 441 left out.
ArityTooFewOnly(arity, argc) == arity > argc - 1

\* Whether picolCommandCallProc goes to arityerr: at line 437 when a formal has
\* no argument, at line 441 when the counts differ.
ArityMismatch(arity, argc) == arity > argc - 1 \/ arity # argc - 1

\* A faulty variant of ProcRetCode: line 443 left out.
ProcRetCodeKept(errcode) == errcode

\* if (errcode == PICOL_RETURN) errcode = PICOL_OK;  (line 443)
ProcRetCode(errcode) == IF errcode = PICOL_RETURN THEN PICOL_OK ELSE errcode

\* picolCommandCallProc up to its picolEval of the body (lines 426-442), or
\* through arityerr (lines 446-448).
picolCommandCallProc ==
  /\ Calls("picolCommandCallProc")
  /\ LET argv == Top.argv
         alist == Privdata[1]
         body == Privdata[2]
         words == Formals(alist)
         pushed == Append(callframe, <<>>)
     IN IF ArityMismatch(Len(words), Len(argv))
        THEN /\ callframe' = picolDropCallFrame(pushed)
             /\ result' = ErrProcArity(argv[1])
             /\ ret' = [code |-> PICOL_ERR, from |-> "picolCommandCallProc"]
             /\ UNCHANGED stack
        ELSE /\ Len(stack) + 2 <= MaxStack
             /\ callframe' = [pushed EXCEPT ![CurrentFrame(pushed)] = BindFormals(words, argv)]
             /\ result' = <<>>
             /\ ret' = NoRet
             /\ stack' = Append(Append(stack,
                             HandlerActivation("picolCommandCallProc", "body", argv, Privdata)),
                           EvalActivation(body, Len(pushed)))
  /\ UNCHANGED <<level, tokenizer, decoder, commands, host, hostcode, nevals, buf, out>>

\* Lines 442-445, from the return of the body's picolEval.
picolCommandCallProcBody ==
  /\ Returned("picolCommandCallProc", "body")
  /\ callframe' = picolDropCallFrame(callframe)
  /\ Return(ProcRetCode(ret.code), "picolCommandCallProc")
  /\ UNCHANGED <<level, tokenizer, decoder, commands, result, host, hostcode, nevals, buf, out>>

picolCommandProc ==
  /\ Calls("picolCommandProc")
  /\ LET argv == Top.argv
     IN IF Len(argv) # 4
        THEN ReturnArityErr("picolCommandProc") /\ UNCHANGED commands
        ELSE /\ commands' = picolRegisterCommand(commands, argv[2], "picolCommandCallProc",
                                                 <<argv[3], argv[4]>>)
             /\ result' = IF RegisterFails(commands, argv[2])
                          THEN ErrAlreadyDefined(argv[2]) ELSE result
             /\ ret' = [code |-> IF RegisterFails(commands, argv[2])
                                 THEN PICOL_ERR ELSE PICOL_OK,
                        from |-> "picolCommandProc"]
             /\ UNCHANGED stack
  /\ UNCHANGED <<level, tokenizer, decoder, callframe, host, hostcode, nevals, buf, out>>

picolCommandReturn ==
  /\ Calls("picolCommandReturn")
  /\ LET argv == Top.argv
     IN IF Len(argv) # 1 /\ Len(argv) # 2
        THEN ReturnArityErr("picolCommandReturn")
        ELSE /\ result' = IF Len(argv) = 2 THEN argv[2] ELSE <<>>
             /\ ret' = [code |-> PICOL_RETURN, from |-> "picolCommandReturn"]
             /\ UNCHANGED stack
  /\ UNCHANGED <<level, tokenizer, decoder, callframe, commands, host, hostcode, nevals, buf, out>>

(***************************************************************************)
(* The host: main run on script files (lines 491-494).                     *)
(***************************************************************************)
\* The scripts the host may hand to picolEval.
Sources ==
  { Bytes(s) : s \in {
      "if { == 1 1 } { set r yes } { set r no }",
      "if { == 1 1 } { set r yes } else { set r no }",
      "if { == 1 2 } { set r yes } else { set r no }",
      "if {== 1 2} {set r yes}",
      "set i 0; while {< $i 2} {set i [+ $i 1]; break}",
      "while {== 1 1} {break}",
      "set i 0; while {< $i 2} {set i [+ $i 1]; continue; set i 9}",
      "set i 0\nwhile {< $i 2} {set i [+ $i 1]}\nputs $i",
      "set i 0 ; while { < $i 3 } { set i [+ $i 1] }",
      "set x 1; set y 2; set x 3",
      "proc f2 {a a} {puts $a}\nf2 1 2",
      "set a 1\n",
      "while {nosuch} {set i 1}",
      "while {== 1 1} {nosuch}",
      "set a 1 \nset b 2",
      "set a 1\nset b 2",
      "set a 1;set b 2",
      "set a 1\t;set b 2",
      "set a {x\ny}; set b \"u;v\"",
      "proc f {a b} {return $a}\nf 1 2",
      "proc f {a b} {return $a}\nf 1",
      "proc f {a b} {return $a}\nf 1 2 3",
      "proc g {} {puts $x}\nset x 5\ng",
      "proc s {q} {set q 1; set t 2}\nset q 0\ns 3\nputs $t",
      "proc set {a} {}",
      "proc z {} {puts no}\nz 1",
      "proc k {} {}\nproc k {a} {return 1}\nk",
      "proc h {v} {if {== 1 1} {return $v}; puts no}\nh 7",
      "proc w {} {while {== 1 1} {return; puts no}; puts no}\nw\nset y 1",
      "proc e {} {nosuch}\ne",
      "proc d {n} {if {> $n 0} {d [- $n 1]}; set m $n}\nd 2",
      "proc o {} {p}\nproc p {} {set d 1; break}\no\nset c 1",
      "+ 999999999 1",
      "- 0 100000000",
      "* 12 -12",
      "/ 7 2",
      "/ 1 0",
      "> 2 1; >= 1 2; <= 1 1; != 1 1",
      "set a 1; nosuch; set b 2",
      "set a [nosuch]b; set b 2",
      "break; set a 1",
      "continue",
      "return 3; set a 1",
      "puts $nov; set a 1",
      "set a; set b 1",
      "puts",
      "while 1",
      "break 1",
      "return 1 2",
      "proc p",
      "+ 1",
      "if 1",
      "# c\nset a \"x\\x41\\n\"\nputs $a[set a]",
      ""
    } }

\* The scripts the host may hand to picolEval after the first.
Sequels ==
  { Bytes(s) : s \in {
      "f 1 2",
      "proc f {x} {set r $x}\nf 4",
      "puts $r",
      "g",
      "set x 1; k"
    } }

\* The scripts the host may hand to its n-th picolEval.
Scripts(n) == IF n = 1 THEN Sources ELSE Sequels

\* retcode = picolEval(&interp, buf) is called.
HostEval ==
  /\ host = "idle"
  /\ nevals < MaxEvals
  /\ \E src \in Scripts(nevals + 1) :
       /\ buf' = src
       /\ stack' = <<EvalActivation(src, Len(callframe))>>
  /\ result' = <<>>
  /\ ret' = NoRet
  /\ host' = "eval"
  /\ nevals' = nevals + 1
  /\ UNCHANGED <<level, tokenizer, decoder, callframe, commands, hostcode, out>>

\* picolEval has returned to the host, which prints the result of a failure.
HostReturn ==
  /\ host = "eval"
  /\ stack = <<>>
  /\ ret # NoRet
  /\ hostcode' = ret.code
  /\ out' = IF ret.code # PICOL_OK THEN Append(out, result) ELSE out
  /\ ret' = NoRet
  /\ host' = "idle"
  /\ UNCHANGED <<level, tokenizer, decoder, callframe, commands, result, stack, nevals, buf>>

Next ==
  \/ HostEval
  \/ picolEval
  \/ picolEvalCmd
  \/ picolEvalCall
  \/ picolCommandMath
  \/ picolCommandSet
  \/ picolCommandPuts
  \/ picolCommandIf
  \/ picolCommandIfCond
  \/ picolCommandIfBranch
  \/ picolCommandWhile
  \/ picolCommandWhileCond
  \/ picolCommandWhileBody
  \/ picolCommandRetCodes
  \/ picolCommandCallProc
  \/ picolCommandCallProcBody
  \/ picolCommandProc
  \/ picolCommandReturn
  \/ HostReturn

Spec == Init /\ [][Next]_vars

(***************************************************************************)
(* The tokenizer on its own: picolInitParser on a source, then             *)
(* picolGetToken again and again, as the loop of picolEval calls it.       *)
(***************************************************************************)
\* How long the generated sources are at most.
MaxTokLen == 3

\* The bytes the generated sources are made of: one of each kind the parser
\* tells apart.
TokAlphabet ==
  {Ord("a"), SPACE, NL, SEMI, HASH, DOLLAR, DQUOTE, LBRACE, RBRACE, LBRACKET, RBRACKET,
   BACKSLASH}

\* Longer sources, for what the generated ones are too short to hold.
TokExtras ==
  { Bytes(s) : s \in {
      "puts a",
      "set a 1\n",
      "  # c\nset a 1",
      "a ;# c\n# d\nb",
      "a#b #c \"# d\" {# e}",
      "puts {a {b} c",
      "puts [a [b] {]} c",
      "puts \"a $b [c] d",
      "\"$a\" \"[b]\"",
      "a\\",
      "{a\\}"
    } }

TokSources ==
  UNION {[1..n -> TokAlphabet] : n \in 0..MaxTokLen} \cup TokExtras \cup Sources

TokInit ==
  /\ InitInterp
  /\ decoder = DecoderOn(<<>>)
  /\ \E text \in TokSources : tokenizer = TokenizerOn(text)

\* A faulty variant of ArgcAfter: a word that follows a PT_EOL is not counted.
ArgcAfterSepOnly(argc, prevtype, type) ==
  IF type = PT_EOF \/ type = PT_SEP THEN argc
  ELSE IF type = PT_EOL THEN 0
  ELSE IF prevtype = PT_SEP THEN argc + 1
  ELSE argc

\* argc of picolEval after the token that took the parser from type prevtype
\* to type (lines 313-345, every variable bound, every substitution PICOL_OK).
ArgcAfter(argc, prevtype, type) ==
  IF type = PT_EOF \/ type = PT_SEP THEN argc
  ELSE IF type = PT_EOL THEN 0
  ELSE IF prevtype = PT_SEP \/ prevtype = PT_EOL THEN argc + 1
  ELSE argc

\* One call picolGetToken(&p) of the loop of line 289.
GetToken ==
  /\ ~tokenizer.crashed
  /\ \E crash \in CrashChoices(tokenizer.p) :
       IF crash THEN tokenizer' = [tokenizer EXCEPT !.crashed = TRUE] ELSE
       \E over \in OverChoices(tokenizer.p) :
       \E q \in {picolGetToken(tokenizer.p, over)} :
         tokenizer' = [p |-> q,
                       argc |-> ArgcAfter(tokenizer.argc, tokenizer.p.type, q.type),
                       dispatched |-> IF q.type = PT_EOL /\ tokenizer.argc > 0
                                      THEN tokenizer.dispatched + 1
                                      ELSE tokenizer.dispatched,
                       calls |-> IF tokenizer.calls < Len(q.text) + 3
                                 THEN tokenizer.calls + 1 ELSE tokenizer.calls,
                       crashed |-> FALSE]
  /\ UNCHANGED <<level, callframe, commands, result, stack, ret, host, hostcode, nevals,
                 buf, out, decoder>>

TokNext == GetToken

TokSpec == TokInit /\ [][TokNext]_vars

(***************************************************************************)
(* The escape decoder on its own: picolEscape(t, tlen) on a word buffer, as *)
(* picolEval calls it for a PT_ESC token.                                   *)
(***************************************************************************)
\* How long the generated buffers are at most.
MaxEscLen == 4

\* The bytes the generated buffers are made of: the backslash, the letters the
\* switch of picolEscape names, hex digits of each kind, a letter that is no
\* hex digit, and white space.
EscAlphabet ==
  {BACKSLASH, Ord("x"), Ord("X"), Ord("n"), Ord("4"), Ord("b"), Ord("F"), Ord("g"), SPACE}

EscBuffers == UNION {[1..n -> EscAlphabet] : n \in 0..MaxEscLen}

EscInit ==
  /\ InitInterp
  /\ tokenizer = TokenizerOn(<<>>)
  /\ \E b \in EscBuffers : decoder = DecoderOn(b)

\* tlen = picolEscape(t, tlen);  (line 312)
Decode ==
  /\ ~decoder.done
  /\ \E junk \in JunkChoices(decoder.b), isa \in IsalphaChoices(decoder.b) :
       decoder' = [b |-> decoder.b, done |-> TRUE, junk |-> junk, isa |-> isa,
                   r |-> picolEscape(decoder.b, Len(decoder.b), junk, isa)]
  /\ UNCHANGED <<level, callframe, commands, result, stack, ret, host, hostcode, nevals,
                 buf, out, tokenizer>>

EscNext == Decode

EscSpec == EscInit /\ [][EscNext]_vars

(***************************************************************************)
(* The properties.                                                         *)
(***************************************************************************)
\* The list vars binds name to val.
Bound(frame, name, val) ==
  \E k \in 1..Len(frame) : frame[k].name = Bytes(name) /\ frame[k].val = Bytes(val)

\* The host's first picolEval, of the script src, has returned.
FirstEvalDone(src) == host = "idle" /\ nevals = 1 /\ buf = Bytes(src)

\* C1: in while cond body, when evaluating the body returns BREAK the loop
\* stops: the handler returns at once, with OK, and evaluates neither the
\* condition nor the body again.
C1_BreakStopsWhile ==
  [][(Returned("picolCommandWhile", "body") /\ ret.code = PICOL_BREAK)
       => /\ stack' = Below
          /\ ret' = [code |-> PICOL_OK, from |-> "picolCommandWhile"]]_vars

\* C2, as the spec states it: the script of four words
\* if { == 1 1 } { set r yes } { set r no } on a new interpreter returns OK, binds
\* r to yes in the current frame and leaves the result yes.
C2_IfFourWords ==
  FirstEvalDone("if { == 1 1 } { set r yes } { set r no }")
    => /\ hostcode = PICOL_OK
       /\ Bound(callframe[Len(callframe)], "r", "yes")
       /\ result = Bytes("yes")

\* C2, amended: with the word else between the branches,
\* if { == 1 1 } { set r yes } else { set r no } on a new interpreter returns OK,
\* binds r to yes in the current frame and leaves the result yes; the script of
\* four words returns ERR with the arity message of if and binds nothing.
C2_IfElse ==
  /\ FirstEvalDone("if { == 1 1 } { set r yes } else { set r no }")
       => /\ hostcode = PICOL_OK
          /\ Bound(callframe[Len(callframe)], "r", "yes")
          /\ result = Bytes("yes")
  /\ FirstEvalDone("if { == 1 1 } { set r yes } { set r no }")
       => /\ hostcode = PICOL_ERR
          /\ result = ErrArity(Bytes("if"))
          /\ callframe = << <<>> >>

C2_IfElseDone ==
  /\ FirstEvalDone("if { == 1 1 } { set r yes } else { set r no }")
  /\ hostcode = PICOL_OK
  /\ result = Bytes("yes")

\* C3: every newline or semicolon outside quotes, braces and brackets ends the
\* command: the tokenizer yields PT_EOL for it, so no PT_SEP token (a token
\* picolEval skips without ending the command) holds a newline or a semicolon.
C3_SeparatorEndsCommand ==
  \A k \in 1..Len(stack) :
    (stack[k].func = "picolEval" /\ stack[k].p.type = PT_SEP)
      => \A j \in 1..Len(TokenText(stack[k].p)) :
           TokenText(stack[k].p)[j] \notin {NL, SEMI}

\* C4: when picolEval returns, with any code, the chain of call frames is as
\* deep as when it was called; and when the handler of a user procedure
\* returns, by arityerr or after the body, the frame it pushed is gone: the
\* chain is as deep as when the calling picolEval was entered.
C4_FramesRestored ==
  [][/\ (stack # <<>> /\ Top.func = "picolEval" /\ stack' = Below)
          => Len(callframe') = Top.frame0
     /\ (ret' # ret /\ ret'.from = "picolCommandCallProc")
          => /\ stack' # <<>>
             /\ stack'[Len(stack')].func = "picolEval"
             /\ Len(callframe') = stack'[Len(stack')].frame0
     /\ (host = "eval" /\ host' = "idle") => Len(callframe') = 1]_vars

C4_ErrInBodyUnwound ==
  /\ FirstEvalDone("proc e {} {nosuch}\ne")
  /\ hostcode = PICOL_ERR
  /\ result = ErrNoSuchCommand(Bytes("nosuch"))
  /\ Len(callframe) = 1

\* C5: when a handler or a command substitution hands picolEval a code other
\* than PICOL_OK, that picolEval returns in its next step, with the same code,
\* having called no command and changed nothing of the interpreter.
C5_NonOkAborts ==
  [][(host = "eval" /\ stack # <<>> /\ Top.func = "picolEval"
        /\ ret # NoRet /\ ret.code # PICOL_OK)
       => /\ stack' = Below
          /\ ret' = [code |-> ret.code, from |-> "picolEval"]
          /\ UNCHANGED <<callframe, commands, result, out>>]_vars

C5_ErrThroughSubstitution ==
  /\ FirstEvalDone("set a [nosuch]b; set b 2")
  /\ hostcode = PICOL_ERR
  /\ result = ErrNoSuchCommand(Bytes("nosuch"))
  /\ callframe = << <<>> >>

\* C6: return v yields PICOL_RETURN with result v (empty without v); picolEval,
\* if and while hand PICOL_RETURN on at once, leaving the result alone; the
\* user procedure's handler turns it into PICOL_OK, leaves the result alone and
\* pops its frame; and no user procedure's handler ever returns PICOL_RETURN.
C6_ReturnEndsProc ==
  [][/\ (Calls("picolCommandReturn") /\ Len(Top.argv) \in {1, 2})
          => /\ ret' = [code |-> PICOL_RETURN, from |-> "picolCommandReturn"]
             /\ result' = IF Len(Top.argv) = 2 THEN Top.argv[2] ELSE <<>>
     /\ (host = "eval" /\ stack # <<>> /\ ret # NoRet /\ ret.code = PICOL_RETURN
           /\ Top.func \in {"picolEval", "picolCommandIf", "picolCommandWhile"})
          => /\ stack' = Below
             /\ ret'.code = PICOL_RETURN
             /\ UNCHANGED <<callframe, commands, result, out>>
     /\ (Returned("picolCommandCallProc", "body") /\ ret.code = PICOL_RETURN)
          => /\ stack' = Below
             /\ ret' = [code |-> PICOL_OK, from |-> "picolCommandCallProc"]
             /\ callframe' = SubSeq(callframe, 1, Len(callframe) - 1)
             /\ UNCHANGED <<commands, result, out>>
     /\ ret'.from = "picolCommandCallProc" => ret'.code # PICOL_RETURN]_vars

C6_ReturnedFromIf ==
  /\ FirstEvalDone("proc h {v} {if {== 1 1} {return $v}; puts no}\nh 7")
  /\ hostcode = PICOL_OK
  /\ result = Bytes("7")
  /\ out = <<>>
  /\ Len(callframe) = 1

\* C7: a user procedure called with a number of arguments other than its
\* number of formal names returns PICOL_ERR with the message
\* Proc '<name>' called with wrong arg num, does not evaluate its body, and
\* leaves the chain of call frames as it was.
C7_ArityMismatch ==
  [][(Calls("picolCommandCallProc") /\ Len(Formals(Privdata[1])) # Len(Top.argv) - 1)
       => /\ ret' = [code |-> PICOL_ERR, from |-> "picolCommandCallProc"]
          /\ result' = Bytes("Proc '") \o Top.argv[1] \o Bytes("' called with wrong arg num")
          /\ UNCHANGED <<stack, callframe, commands, out>>]_vars

C7_TooManyForNoFormals ==
  /\ FirstEvalDone("proc z {} {puts no}\nz 1")
  /\ hostcode = PICOL_ERR
  /\ out = <<Bytes("Proc 'z' called with wrong arg num")>>
  /\ Len(callframe) = 1

\* The next token of the picolEval on top is $name for a name that the
\* current frame does not bind.
NextIsUnboundVar ==
  /\ InEval("loop")
  /\ ret = NoRet
  /\ picolGetToken(Top.p, 0).type = PT_VAR
  /\ \A k \in 1..Len(callframe[Len(callframe)]) :
       callframe[Len(callframe)][k].name # TokenText(picolGetToken(Top.p, 0))

\* C8: $x for a name the current frame does not bind fails with
\* No such variable 'x', whatever the other frames bind; set binds its name in
\* the current frame; and no step changes a frame other than the current one,
\* so that a caller's frame holds after the call what it held before.
C8_CurrentFrameOnly ==
  [][/\ NextIsUnboundVar
          => /\ ret' = [code |-> PICOL_ERR, from |-> "picolEval"]
             /\ result' = Bytes("No such variable '")
                            \o TokenText(picolGetToken(Top.p, 0)) \o Bytes("'")
             /\ UNCHANGED callframe
     /\ (Calls("picolCommandSet") /\ Len(Top.argv) = 3)
          => /\ Len(callframe') = Len(callframe)
             /\ \E k \in 1..Len(callframe'[Len(callframe)]) :
                  callframe'[Len(callframe)][k] = [name |-> Top.argv[2], val |-> Top.argv[3]]
     /\ \A k \in 1..Len(callframe) :
          (k <= Len(callframe') /\ (k < Len(callframe) \/ k < Len(callframe')))
            => callframe'[k] = callframe[k]]_vars

C8_GlobalNotSeenInProc ==
  /\ FirstEvalDone("proc g {} {puts $x}\nset x 5\ng")
  /\ hostcode = PICOL_ERR
  /\ result = Bytes("No such variable 'x'")
  /\ Bound(callframe[1], "x", "5")

\* C9: proc with a name the registry holds returns PICOL_ERR with the message
\* Command '<name>' already defined and leaves the registry as it was; and no
\* step removes or replaces a registered command (the registry only grows, at
\* its head).
C9_RegistryKeepsCommands ==
  [][/\ (Calls("picolCommandProc") /\ Len(Top.argv) = 4
           /\ \E k \in 1..Len(commands) : commands[k].name = Top.argv[2])
          => /\ ret' = [code |-> PICOL_ERR, from |-> "picolCommandProc"]
             /\ result' = Bytes("Command '") \o Top.argv[2] \o Bytes("' already defined")
             /\ UNCHANGED commands
     /\ Len(commands') >= Len(commands)
     /\ SubSeq(commands', Len(commands') - Len(commands) + 1, Len(commands')) = commands]_vars

C9_SecondProcRejected ==
  /\ FirstEvalDone("proc k {} {}\nproc k {a} {return 1}\nk")
  /\ hostcode = PICOL_ERR
  /\ result = Bytes("Command 'k' already defined")
  /\ commands[1] = [name |-> Bytes("k"), func |-> "picolCommandCallProc",
                    privdata |-> << <<>>, <<>> >>]

\* The text s is the decimal representation of a 32-bit signed int.
IsDecimalInt(s) == s = FormatInt(atoi(s))

Abs(a) == IF a < 0 THEN 0 - a ELSE a

\* The mathematical result of operator code o on a and b fits a 32-bit
\* signed int (for the product: short of the one case a * b = INT_MIN).
ResultFits(o, a, b) ==
  IF o = OpOf("+") THEN (IF b >= 0 THEN a <= INT_MAX - b ELSE a >= INT_MIN - b)
  ELSE IF o = OpOf("-") THEN (IF b >= 0 THEN a >= INT_MIN + b ELSE a <= INT_MAX + b)
  ELSE IF o = OpOf("*")
  THEN a = 0 \/ b = 0 \/ (a # INT_MIN /\ b # INT_MIN /\ Abs(a) <= INT_MAX \div Abs(b))
  ELSE IF o = OpOf("/") THEN b # 0 /\ ~(a = INT_MIN /\ b = 0 - 1)
  ELSE TRUE

\* C10: a math command called with two operands a and b that are decimal ints,
\* whose mathematical result fits an int, returns PICOL_OK and leaves as the
\* result the complete decimal representation of that result.
C10_MathResultComplete ==
  (InEval("call") /\ ret # NoRet /\ ret.from = "picolCommandMath" /\ Len(Top.argv) = 3
     /\ IsDecimalInt(Top.argv[2]) /\ IsDecimalInt(Top.argv[3])
     /\ ResultFits(OpCode(Top.argv[1]), atoi(Top.argv[2]), atoi(Top.argv[3])))
    => /\ ret.code = PICOL_OK
       /\ result = FormatInt(MathValue(OpCode(Top.argv[1]), atoi(Top.argv[2]),
                                       atoi(Top.argv[3])))

\* The while handler on top of the stack calls picolEval(i, text) from pc.
WhileEvaluates(pc, text) ==
  stack' = Append(Append(Below, [Top EXCEPT !.pc = pc]),
                  EvalActivation(text, Len(callframe)))

\* C11: a while evaluates its body after every evaluation of the condition
\* that leaves a nonzero result, evaluates the condition again after every
\* body that returns OK or CONTINUE, and returns OK at the first condition
\* that leaves 0, so that k nonzero conditions make k evaluations of the body;
\* and whenever set i 0 ; while { < $i 3 } { set i [+ $i 1] } has returned, it
\* returned OK with i bound to 3.
C11_WhileIterates ==
  [][/\ ((Returned("picolCommandWhile", "cond") /\ ret.code = PICOL_OK)
           => (IF atoi(result) # 0
               THEN WhileEvaluates("body", Top.argv[3])
               ELSE /\ stack' = Below
                    /\ ret' = [code |-> PICOL_OK, from |-> "picolCommandWhile"]))
      /\ ((Returned("picolCommandWhile", "body")
             /\ ret.code \in {PICOL_OK, PICOL_CONTINUE})
           => WhileEvaluates("cond", Top.argv[2]))
      /\ ((host' = "idle" /\ nevals' = 1
             /\ buf' = Bytes("set i 0 ; while { < $i 3 } { set i [+ $i 1] }"))
           => (/\ hostcode' = PICOL_OK
               /\ Bound(callframe'[1], "i", "3")))]_vars

\* The loop of C11 has run its three rounds and returned.
C11_CountedToThree ==
  /\ FirstEvalDone("set i 0 ; while { < $i 3 } { set i [+ $i 1] }")
  /\ hostcode = PICOL_OK
  /\ Bound(callframe[1], "i", "3")
  /\ Len(callframe[1]) = 1

\* The numeric value of the hex digit h.
HexValue(h) ==
  IF isdigit(h) THEN h - ZERO
  ELSE IF islower(h) THEN 10 + (h - Ord("a"))
  ELSE 10 + (h - Ord("A"))

\* The buffer of the decoder is a backslash, x or X, and the bytes hex.
IsHexEscape(hex) ==
  \E x \in {Ord("x"), Ord("X")} : decoder.b = <<BACKSLASH, x>> \o hex

\* C12: decoding a backslash, x or X and exactly one hex digit H emits the
\* single byte of value H, and decoding a backslash, x or X and two hex digits
\* H1 H2 emits the single byte 16*H1+H2.
C12_HexEscapes ==
  decoder.done =>
    /\ \A h \in {Ord("4"), Ord("b"), Ord("F")} :
         IsHexEscape(<<h>>) => decoder.r.out = <<HexValue(h)>>
    /\ \A h1, h2 \in {Ord("4"), Ord("b"), Ord("F")} :
         IsHexEscape(<<h1, h2>>) => decoder.r.out = <<16 * HexValue(h1) + HexValue(h2)>>

\* The offset pos of text is a command boundary: only white space lies between
\* it and the start of the source or the newline or semicolon before it.
AtCommandBoundary(text, pos) ==
  \E j \in 0..pos :
    /\ \A k \in j..(pos - 1) : ~isgraph(At(text, k))
    /\ j = 0 \/ At(text, j - 1) \in {NL, SEMI}

\* The parser stands on a # outside a quoted word, and picolGetToken returns
\* from the call that starts there.
TokenStartsAtHash ==
  /\ tokenizer.p.len > 0
  /\ ~tokenizer.p.insidequote
  /\ At(tokenizer.p.text, tokenizer.p.pos) = HASH
  /\ ~tokenizer'.crashed

\* C13: a # at a command boundary is skipped with all bytes up to the next
\* newline, and the call yields no word (it returns the end of the line or of
\* the source, and argc stays as it is or is reset); a # anywhere else is the
\* first byte of the text of the word the call returns.
C13_HashComments ==
  [][TokenStartsAtHash =>
       IF AtCommandBoundary(tokenizer.p.text, tokenizer.p.pos)
       THEN /\ tokenizer'.p.type \in {PT_EOL, PT_EOF}
            /\ tokenizer'.argc = 0
            /\ \A k \in tokenizer.p.pos..(tokenizer'.p.start - 1) :
                 At(tokenizer.p.text, k) # NL
       ELSE /\ tokenizer'.p.type = PT_ESC
            /\ tokenizer'.p.start = tokenizer.p.pos
            /\ tokenizer'.p.end >= tokenizer.p.pos]_vars

\* One byte of the scan for the brace that closes the one before offset s.k:
\* level counts the open braces, and a backslash takes the next byte with it.
MatchStep(text, s) ==
  IF s.k >= Len(text) \/ s.level = 0 THEN s
  ELSE IF At(text, s.k) = LBRACE THEN [k |-> s.k + 1, level |-> s.level + 1]
  ELSE IF At(text, s.k) = BACKSLASH /\ s.k + 1 < Len(text)
  THEN [s EXCEPT !.k = s.k + 2]
  ELSE IF At(text, s.k) = RBRACE THEN [k |-> s.k + 1, level |-> s.level - 1]
  ELSE [s EXCEPT !.k = s.k + 1]

\* The brace at offset pos of text is never closed.
Unterminated(text, pos) ==
  Iterate(LAMBDA s : MatchStep(text, s), [k |-> pos + 1, level |-> 1],
          Len(text) + 1).level > 0

\* The parser stands on a { that opens a braced word.
AtOpenBrace ==
  /\ tokenizer.p.len > 0
  /\ At(tokenizer.p.text, tokenizer.p.pos) = LBRACE
  /\ tokenizer.p.type \in {PT_SEP, PT_EOL, PT_STR}

\* C14: on every source every call of picolGetToken returns (with PICOL_OK, the
\* only code it has), every call made while bytes remain moves the cursor on
\* by at least one byte, the end of the source is reported after at most two
\* calls more than the source has bytes, and a { that is never closed yields a
\* PT_STR token whose text is all that lies between it and the end of the
\* source.
C14_TokenizerNeverFails ==
  [][/\ ~tokenizer'.crashed
     /\ tokenizer.p.len > 0 => tokenizer'.p.pos > tokenizer.p.pos
     /\ tokenizer'.calls >= Len(tokenizer.p.text) + 2 => tokenizer'.p.type = PT_EOF
     /\ (AtOpenBrace /\ Unterminated(tokenizer.p.text, tokenizer.p.pos))
          => /\ tokenizer'.p.type = PT_STR
             /\ tokenizer'.p.start = tokenizer.p.pos + 1
             /\ tokenizer'.p.end = Len(tokenizer.p.text) - 1]_vars

\* No two entries of the list carry the same name.
UniqueNames(list) ==
  \A j, k \in 1..Len(list) : list[j].name = list[k].name => j = k

\* The bindings of the list for names other than name.
OtherBindings(list, name) == {list[k] : k \in {j \in 1..Len(list) : list[j].name # name}}

\* C15: in every state each call frame holds at most one binding per name and
\* the registry at most one command per name; and every set X W leaves, in the
\* current frame, exactly one binding of X, with the value W, and every other
\* binding of every frame as it was.
C15_OneBindingPerName ==
  /\ [](/\ \A f \in 1..Len(callframe) : UniqueNames(callframe[f])
        /\ UniqueNames(commands))
  /\ [][(Calls("picolCommandSet") /\ Len(Top.argv) = 3)
          => LET cur == Len(callframe)
                 X == Top.argv[2]
                 W == Top.argv[3]
             IN /\ Len(callframe') = Len(callframe)
                /\ \A g \in 1..(cur - 1) : callframe'[g] = callframe[g]
                /\ Cardinality({k \in 1..Len(callframe'[cur]) : callframe'[cur][k].name = X}) = 1
                /\ \A k \in 1..Len(callframe'[cur]) :
                     callframe'[cur][k].name = X => callframe'[cur][k].val = W
                /\ OtherBindings(callframe'[cur], X) = OtherBindings(callframe[cur], X)]_vars

\* set x 1; set y 2; set x 3 has returned: x is bound once, to 3, next to y.
C15_SetTwice ==
  /\ FirstEvalDone("set x 1; set y 2; set x 3")
  /\ hostcode = PICOL_OK
  /\ Len(callframe[1]) = 2
  /\ Bound(callframe[1], "x", "3")
  /\ Bound(callframe[1], "y", "2")

\* C16: on every source, after every call of picolGetToken the count len is
\* not negative and pos is at most the offset of the terminating NUL; the
\* parser reads no byte beyond the offset pos has reached, so that no byte
\* after the NUL has been read.
C16_CursorInsideSource ==
  /\ tokenizer.p.len >= 0
  /\ tokenizer.p.pos <= Len(tokenizer.p.text)


\* The bytes picolEscape has emitted for the buffer of the decoder: the bytes
\* before the first backslash, which stay where they are, and those stored
\* after them.
Emitted ==
  IF strchrBackslash(decoder.b) < 0 THEN decoder.b
  ELSE SubSeq(decoder.b, 1, strchrBackslash(decoder.b)) \o decoder.r.out

\* C17: for every word buffer the escape decoder returns exactly the number of
\* bytes it emitted and ends the buffer there, so that the buffer holds every
\* emitted byte, the text after an escape sequence included; a buffer without
\* a backslash comes back unchanged with its length; and the decoder reads no
\* byte after the buffer's NUL.
C17_DecoderKeepsAll ==
  decoder.done =>
    /\ decoder.r.n = Len(Emitted)
    /\ decoder.r.buf = Emitted
    /\ strchrBackslash(decoder.b) < 0 =>
         decoder.r.buf = decoder.b /\ decoder.r.n = Len(decoder.b)
    /\ decoder.r.s <= Len(decoder.b)


\* The parser of the tokenizer has used up its input.
Exhausted == tokenizer.p.len <= 0

\* C18: once the input is used up, picolGetToken returns PT_EOL if the token
\* before was neither PT_EOL nor PT_EOF, and PT_EOF otherwise, so one PT_EOL at
\* most and PT_EOF on every call after it, and moves nothing else; the PT_EOL
\* dispatches the final command if words are pending, exactly once, and the
\* PT_EOF that follows finds no word pending and dispatches nothing.
C18_OneEolThenEof ==
  [][Exhausted =>
       IF tokenizer.p.type \notin {PT_EOL, PT_EOF}
       THEN /\ tokenizer'.p = [tokenizer.p EXCEPT !.type = PT_EOL]
            /\ tokenizer'.dispatched =
                 tokenizer.dispatched + (IF tokenizer.argc > 0 THEN 1 ELSE 0)
            /\ tokenizer'.argc = 0
       ELSE /\ tokenizer'.p = [tokenizer.p EXCEPT !.type = PT_EOF]
            /\ tokenizer.argc = 0
            /\ tokenizer'.argc = 0
            /\ tokenizer'.dispatched = tokenizer.dispatched]_vars

\* The source puts a, with no newline after it, has been read to its PT_EOF:
\* the one command was dispatched once, at the PT_EOL before.
C18_FinalCommandOnce ==
  /\ tokenizer.p.text = Bytes("puts a")
  /\ tokenizer.p.type = PT_EOF
  /\ tokenizer.calls = 5
  /\ tokenizer.dispatched = 1


\* The kinds of token that carry text for a word.
WordTypes == {PT_ESC, PT_STR, PT_VAR, PT_CMD}

\* C19: on every source, whenever picolGetToken returns a token that picolEval
\* appends to the last word (a word token after a token that is neither PT_SEP
\* nor PT_EOL), the argument vector holds at least one word, so that
\* argv[argc-1] exists.
C19_InterpolationHasWord ==
  [][(tokenizer'.p.type \in WordTypes /\ tokenizer.p.type \notin {PT_SEP, PT_EOL})
       => tokenizer.argc >= 1]_vars

\* In "$a" "[b]" the [b] inside the second quoted word has been returned: it
\* is appended to the second word, which the empty text before it started.
C19_InterpolatedInQuotes ==
  /\ tokenizer.p.text = Bytes("\"$a\" \"[b]\"")
  /\ tokenizer.p.type = PT_CMD
  /\ tokenizer.p.insidequote
  /\ tokenizer.argc = 2


\* C20, as the spec states it: in every parser state reached from
\* picolInitParser by any number of picolGetToken calls, on the empty source
\* too, start <= end+1 <= pos.
C20_CursorOrder ==
  /\ tokenizer.p.start <= tokenizer.p.end + 1
  /\ tokenizer.p.end + 1 <= tokenizer.p.pos

\* C20, amended: start <= end+1 <= pos holds in every parser state in which
\* the cursor has left the start of the source; until then, right after
\* picolInitParser and for ever on the empty source, start, end and pos all
\* point at the start of the source, so that end+1 is pos+1.
C20_CursorOrderOnceMoved ==
  IF tokenizer.p.pos > 0
  THEN /\ tokenizer.p.start <= tokenizer.p.end + 1
       /\ tokenizer.p.end + 1 <= tokenizer.p.pos
  ELSE /\ tokenizer.p.start = 0
       /\ tokenizer.p.end = 0

\* The lone $ at the end of a $ has been returned: a token of one byte, whose
\* end+1 is pos.
C20_LoneDollar ==
  /\ tokenizer.p.text = Bytes("a $")
  /\ tokenizer.p.type = PT_STR
  /\ tokenizer.p.start = 2
  /\ tokenizer.p.end = 2
  /\ tokenizer.p.pos = 3

==============================================================================
